---- MODULE Spec2Model ----
(***************************************************************************)
(* Model of mortgage.py: the Mortgage class (constructor, the closed-form  *)
(* queries and the monthly_payment_schedule generator) and dollar().       *)
(*                                                                         *)
(* Units.  Money is counted in cents.  A Decimal with two fractional       *)
(* digits is an integer number of cents; a value that need not be a whole  *)
(* number of cents (a Python float) is a fraction [num, den] of cents.     *)
(* The amount handed to the constructor is counted in half cents, so that  *)
(* the ceiling of dollar() has something to round.  months handed to the   *)
(* constructor or to a query are counted in half months and years in       *)
(* sixteenths of a year (both exact binary floats), so that int() truncates.  *)
(*                                                                         *)
(* Rates.  self._interest is a float.  Two families of floats are          *)
(* modelled, as records [kind, v]:                                         *)
(*   kind = "dec": the rate v / RateUnit, a decimal rate;                  *)
(*   kind = "ulp": the rate 3 * v * 2^-52, for which rate / 12 is exactly  *)
(*                 v quarters of the spacing 2^-52 of the floats in [1,2), *)
(*                 so that the float sum 1. + rate/12 rounds.              *)
(***************************************************************************)
EXTENDS Integers, Sequences, FiniteSets, TLC

\* ---------------------------------------------------------------- bounds
MaxAmountHalfCents == 9
MaxNegAmountHalfCents == 2
MaxMonthsHalves == 4
MaxYearsSixteenths == 2
MaxUlpQuarters == 3

\* ------------------------------------------------------ program constants
MONTHS_IN_YEAR == 12
RATE_QUANTUM == 1000000

RateUnit == 10 * RATE_QUANTUM
\* months/years not given (every given value is >= 0)
None == 0 - 1

DecRates == {[kind |-> "dec", v |-> 18 * RateUnit]}
UlpRates == {[kind |-> "ulp", v |-> k] : k \in 1..MaxUlpQuarters}
Rates == DecRates \cup UlpRates
\* 1 + inflation is a twelfth power, so that (1+inflation)**(-1/12) is rational
Inflations == {0, 4095}
CountCap == (MaxMonthsHalves \div 2) + 1

\* ------------------------------------------------------------ arithmetic
RECURSIVE Pow(_, _)
Pow(b, e) == IF e = 0 THEN 1 ELSE b * Pow(b, e - 1)

RECURSIVE Gcd(_, _)
Gcd(a, b) == IF b = 0 THEN a ELSE Gcd(b, a % b)

Abs(n) == IF n < 0 THEN 0 - n ELSE n

Frac(n, d) ==
  IF d = 0 THEN [num |-> n, den |-> 0]
  ELSE LET g == Gcd(Abs(n), Abs(d))
           s == IF d < 0 THEN 0 - 1 ELSE 1
       IN [num |-> s * (n \div g), den |-> s * (d \div g)]

\* Decimal.quantize with ROUND_CEILING / ROUND_HALF_UP / ROUND_HALF_EVEN of
\* the fraction n/d (d > 0) to an integer number of units
Ceiling(n, d) == 0 - ((0 - n) \div d)
HalfUp(n, d) == IF n >= 0 THEN (2 * n + d) \div (2 * d)
                ELSE 0 - ((2 * (0 - n) + d) \div (2 * d))
HalfEven(n, d) ==
  LET q == n \div d
      r == n % d
  IN IF 2 * r < d THEN q
     ELSE IF 2 * r > d THEN q + 1
     ELSE IF q % 2 = 0 THEN q ELSE q + 1

dollar(n, d, round) ==
  IF round = "ROUND_CEILING" THEN Ceiling(n, d) ELSE HalfUp(n, d)

\* ----------------------------------------------------------------- state
VARIABLES obj, args, _interest, _months, _amount, fpUp, gen, ret

vars == <<obj, args, _interest, _months, _amount, fpUp, gen, ret>>
loan == <<_interest, _months, _amount>>

Gens == {1, 2}
NoPair == <<0, 0>>
NoGen == [pc |-> "none", monthly |-> 0, balance |-> 0, rate |-> 0,
          principle |-> 0, interest |-> 0,
          out |-> NoPair, count |-> 0, calls |-> 0, paid |-> 0]
NoGiven == "none"
NoRet == [op |-> "none", given |-> NoGiven, outcome |-> "none",
          type |-> "none", num |-> 0, den |-> 1]

Init ==
  /\ obj = "none"
  /\ args = [months |-> None, years |-> None]
  /\ _interest = [kind |-> "dec", v |-> 0]
  /\ _months = 0
  /\ _amount = 0
  /\ fpUp = 0
  /\ gen = [g \in Gens |-> NoGen]
  /\ ret = NoRet

\* ------------------------------------------------------------ Mortgage
\* the outcome of a call: a value, or the exception it raised
Ok(v) == [raise |-> "none", value |-> v]
Raise(e) == [raise |-> e, value |-> 0]

\* a fault of __months: months wins when both are given
months_both_accepted(months, years) ==
  IF months /= None THEN Ok(months \div 2)
  ELSE IF years /= None THEN Ok((years * MONTHS_IN_YEAR) \div 16)
  ELSE Raise("InputError")

\* __months: months in half months, years in sixteenths of a year; int() of a
\* non-negative float truncates
__months(months, years) ==
  IF months /= None
  THEN IF years /= None THEN Raise("InputError") ELSE Ok(months \div 2)
  ELSE IF years /= None THEN Ok((years * MONTHS_IN_YEAR) \div 16)
  ELSE Raise("InputError")

\* month_growth() = 1. + rate/12 as the fraction n/d.  For a "dec" rate the
\* sum is taken as exact.  For an "ulp" rate, rate/12 = v/4 * 2^-52 and the
\* float sum rounds it to j = HalfEven(v, 4) units of 2^-52: the growth is
\* 1 + j * 2^-52, given here by ulps = j (n/d = 1/1 stands for the integer
\* part).
month_growth(rate) ==
  IF rate.kind = "dec"
  THEN LET f == Frac(rate.v, MONTHS_IN_YEAR * RateUnit)
       IN [n |-> f.num + f.den, d |-> f.den, ulps |-> 0]
  ELSE [n |-> 1, d |-> 1, ulps |-> HalfEven(rate.v, 4)]

\* pre_amt of monthly_payment() in cents, as a fraction; den = 0 is the
\* float division by zero.
\*   "dec": with rate/12 = a/b and growth (a+b)/b,
\*          amount*rate/(12*(1-(1/growth)^n)) = amount*a*(a+b)^n / (b*((a+b)^n-b^n))
\*   "ulp": 1./growth = 1 - j*2^-52, its n-th power is 1 - n*j*2^-52 and
\*          1. - that is n*j*2^-52, all exactly representable; with
\*          rate = 3*v*2^-52 the quotient is amount*v / (4*n*j).
pre_amt(rate, months, amount) ==
  LET g == month_growth(rate)
  IN IF rate.kind = "dec"
     THEN [num |-> amount * (g.n - g.d) * Pow(g.n, months),
           den |-> g.d * (Pow(g.n, months) - Pow(g.d, months))]
     ELSE [num |-> amount * rate.v, den |-> 4 * months * g.ulps]

\* dollar(f) of a float f whose real value is n/d cents: str(f) differs
\* from n/d by the binary rounding error of the float evaluation, which
\* only decides the ceiling when n/d is itself a whole number of cents; up
\* is 1 when the float landed above it.
\* the rounding errors (0: not above, 1: above) that can decide
\* dollar(pre_amt); a product that is 0 is an exact float
float_errors(n, d) ==
  IF d /= 0 /\ n % d = 0 /\ n /= 0 THEN {0, 1} ELSE {0}

dollar_float(n, d, up) ==
  dollar(n, d, "ROUND_CEILING") + (IF n % d = 0 THEN up ELSE 0)

monthly_payment ==
  LET p == pre_amt(_interest, _months, _amount)
  IN IF p.den = 0 THEN Raise("ZeroDivisionError")
     ELSE Ok(dollar_float(p.num, p.den, fpUp))

annual_payment ==
  LET pay == monthly_payment
  IN IF pay.raise /= "none" THEN pay ELSE Ok(pay.value * MONTHS_IN_YEAR)

\* the result of a query: a Decimal or a float of n/d cents, or the
\* exception raised
Value(type, n, d) == [outcome |-> "value", type |-> type] @@ Frac(n, d)
Raised(e) == [outcome |-> e, type |-> "none", num |-> 0, den |-> 1]

\* a fault of the default horizon: neither months nor years is an error
horizon_no_default(months, years) == __months(months, years)

\* lines 67-70 and 90-93: with neither months nor years, the loan's term
horizon(months, years) ==
  IF months = None /\ years = None THEN Ok(_months)
  ELSE __months(months, years)

\* monthly_factor = (1+inflation)**(-1.0/12) as the fraction n/d
monthly_factor(inflation) ==
  [n |-> 1,
   d |-> IF inflation = 0 THEN 1
         ELSE CHOOSE r \in 2..4 : Pow(r, MONTHS_IN_YEAR) = 1 + inflation]

\* lines 72-78, for the resolved number of months m
m_paid(m, inflation) ==
  LET pay == monthly_payment
      f == monthly_factor(inflation)
  IN IF pay.raise /= "none" THEN Raised(pay.raise)
     ELSE IF inflation /= 0
     THEN Value("float", pay.value * f.n * (Pow(f.d, m) - Pow(f.n, m)),
                Pow(f.d, m) * (f.d - f.n))
     ELSE Value("Decimal", pay.value * m, 1)

total_payout(months, years, inflation) ==
  LET m_months == horizon(months, years)
  IN IF m_months.raise /= "none" THEN Raised(m_months.raise)
     ELSE m_paid(m_months.value, inflation)

\* lines 109-115, for the resolved number of months m; up is the float
\* rounding error of m_balance (none for m = 0, where growth**0 is 1.0 and
\* total_paid is 0).
\*   "dec":  amount*g^m - pay*(1-g^m)/(1-g) with g = (a+b)/b is
\*           (amount*a*(a+b)^m - pay*b*((a+b)^m - b^m)) / (a*b^m)
\*   "ulp":  g^m = 1 + m*j*2^-52, so total_paid = pay*m and total_at_date
\*           is amount up to rounding
m_balance(m, inflation, up) ==
  LET pay == monthly_payment
      g == month_growth(_interest)
      f == monthly_factor(inflation)
      a == g.n - g.d
      b == g.d
      bal == IF _interest.kind = "dec"
             THEN Frac(_amount * a * Pow(g.n, m)
                         - pay.value * b * (Pow(g.n, m) - Pow(b, m)),
                       a * Pow(b, m))
             ELSE Frac(_amount - pay.value * m, 1)
      adj == IF inflation /= 0
             THEN Frac(bal.num * Pow(f.n, m), bal.den * Pow(f.d, m))
             ELSE bal
  IN IF pay.raise /= "none" THEN Raised(pay.raise)
     ELSE Value("Decimal",
                dollar_float(adj.num, adj.den, IF m = 0 THEN 0 ELSE up), 1)

balance(months, years, inflation, up) ==
  LET m_months == __months(months, years)
  IN IF m_months.raise /= "none" THEN Raised(m_months.raise)
     ELSE m_balance(m_months.value, inflation, up)

\* lines 90-97; upPaid is the float rounding error of a float m_paid (a
\* Decimal m_paid and a float that is exactly 0 have none)
total_cost(months, years, inflation, upPaid, upBal) ==
  LET m_months == horizon(months, years)
      paid == m_paid(m_months.value, inflation)
      bal == m_balance(m_months.value, inflation, upBal)
  IN IF m_months.raise /= "none" THEN Raised(m_months.raise)
     ELSE IF paid.outcome /= "value" THEN paid
     ELSE Value("Decimal",
                dollar_float(paid.num, paid.den,
                             IF paid.type = "float" /\ paid.num /= 0
                             THEN upPaid ELSE 0)
                  - (_amount - bal.num), 1)

\* ------------------------------------------- monthly_payment_schedule
\* line 120: Decimal(str(rate)).quantize(Decimal('.000001')), in units of
\* RATE_QUANTUM (the context's rounding, ROUND_HALF_EVEN); an "ulp" rate is
\* below half a quantum
quantize_rate(rate) ==
  IF rate.kind = "dec" THEN HalfEven(rate.v, RateUnit \div RATE_QUANTUM) ELSE 0

\* lines 122-123
period_interest(bal, rate) ==
  dollar(bal * rate, MONTHS_IN_YEAR * RATE_QUANTUM, "ROUND_HALF_UP")

\* a fault of the final-period test: the interest is left out
is_final_without_interest(monthly, bal, interest) == monthly >= bal

\* line 124
is_final(monthly, bal, interest) == monthly >= bal + interest

\* a fault of the final period: the nominal payment is split as usual
yield_pair_uncapped(monthly, bal, interest) == <<monthly - interest, interest>>

\* lines 125 and 127-128: the pair handed to the consumer
yield_pair(monthly, bal, interest) ==
  IF is_final(monthly, bal, interest) THEN <<bal, interest>>
  ELSE <<monthly - interest, interest>>

\* one pass of the while loop up to its yield, from the locals monthly,
\* bal and rate; count and paid are the number of pairs (counted up to
\* CountCap) and the sum of the principal portions handed out so far, calls
\* the parity of the number of next() calls
loop_body(gs, monthly, bal, rate) ==
  LET interest == period_interest(bal, rate)
      final == is_final(monthly, bal, interest)
      pair == yield_pair(monthly, bal, interest)
  IN [pc |-> IF final THEN "final" ELSE "yielded",
      monthly |-> monthly, balance |-> bal, rate |-> rate,
      principle |-> IF final THEN gs.principle ELSE monthly - interest,
      interest |-> interest,
      out |-> pair,
      count |-> IF gs.count < CountCap THEN gs.count + 1 ELSE gs.count,
      calls |-> (gs.calls + 1) % 2,
      paid |-> gs.paid + pair[1]]

\* ---------------------------------------------------------------- actions
MonthsInputs == {None} \cup 0..MaxMonthsHalves
YearsInputs == {None} \cup 1..MaxYearsSixteenths
AmountInputs == (0 - MaxNegAmountHalfCents)..MaxAmountHalfCents
\* the months of a query: not given, or half a month
HorizonInputs == {None, 1}
\* the (months, years) of a query: every months alone, every years alone,
\* neither, and one pair with both
HorizonArgs ==
  {a \in HorizonInputs \X YearsInputs :
     a[1] = None \/ a[2] = None \/ (a[1] = 1 /\ a[2] = 1)}

\* m = Mortgage(interest, months, amount, years), lines 31-34, for every
\* choice of the arguments; up is the sign
\* of the float rounding error of pre_amt for these parameters.  The two
\* generators are the results of two calls m.monthly_payment_schedule():
\* no line of the generator's body runs before its first next().
Construct ==
  /\ obj = "none"
  /\ \E interest \in Rates, months \in MonthsInputs, years \in YearsInputs,
        amount \in AmountInputs, up \in {0, 1} :
       /\ args' = [months |-> months, years |-> years]
       /\ LET m == __months(months, years)
          IN IF m.raise /= "none"
             THEN /\ obj' = m.raise
                  /\ up = 0
                  /\ UNCHANGED <<_interest, _months, _amount, fpUp, gen>>
             ELSE /\ obj' = "Mortgage"
                  /\ _interest' = interest
                  /\ _months' = m.value
                  /\ _amount' = dollar(amount, 2, "ROUND_CEILING")
                  /\ LET p == pre_amt(interest, m.value,
                                      dollar(amount, 2, "ROUND_CEILING"))
                     IN up \in float_errors(p.num, p.den)
                  /\ fpUp' = up
                  /\ gen' = [g \in Gens |-> [NoGen EXCEPT !.pc = "created"]]
  /\ UNCHANGED ret

Given(months, years) ==
  IF months /= None
  THEN IF years /= None THEN "both" ELSE "months"
  ELSE IF years /= None THEN "years" ELSE "neither"

Return(op, given, r) ==
  /\ ret' = [op |-> op, given |-> given] @@ r
  /\ UNCHANGED <<obj, args, _interest, _months, _amount, fpUp, gen>>

FromOutcome(o) ==
  IF o.raise /= "none" THEN Raised(o.raise) ELSE Value("Decimal", o.value, 1)

CallMonthlyPayment ==
  /\ obj = "Mortgage"
  /\ Return("monthly_payment", NoGiven, FromOutcome(monthly_payment))

CallAnnualPayment ==
  /\ obj = "Mortgage"
  /\ Return("annual_payment", NoGiven, FromOutcome(annual_payment))

CallTotalPayout(months, years, inflation) ==
  /\ obj = "Mortgage"
  /\ Return("total_payout", Given(months, years),
            total_payout(months, years, inflation))

CallTotalCost(months, years, inflation) ==
  /\ obj = "Mortgage"
  /\ LET m == horizon(months, years)
         run == m.raise = "none" /\ m.value > 0
     IN \E upPaid \in (IF run /\ inflation /= 0 THEN {0, 1} ELSE {0}),
           upBal \in (IF run THEN {0, 1} ELSE {0}) :
          Return("total_cost", Given(months, years),
                 total_cost(months, years, inflation, upPaid, upBal))

CallBalance(months, years, inflation) ==
  /\ obj = "Mortgage"
  /\ LET m == __months(months, years)
         run == m.raise = "none" /\ m.value > 0
     IN \E up \in (IF run THEN {0, 1} ELSE {0}) :
          Return("balance", Given(months, years),
                 balance(months, years, inflation, up))

\* a fault of the generator: the running balance is kept in self._amount
GenNextOnAmount(g) ==
  /\ gen[g].pc \in {"created", "yielded"}
  /\ LET gs == gen[g]
         pay == monthly_payment
         nxt == IF gs.pc = "created"
                THEN IF pay.raise /= "none" THEN [gs EXCEPT !.pc = "raised"]
                     ELSE loop_body(gs, pay.value, _amount,
                                    quantize_rate(_interest))
                ELSE loop_body(gs, gs.monthly, _amount, gs.rate)
     IN /\ gen' = [gen EXCEPT ![g] = nxt]
        /\ _amount' = IF nxt.pc = "yielded" THEN _amount - nxt.principle
                      ELSE _amount
  /\ UNCHANGED <<obj, args, _interest, _months, fpUp, ret>>

\* next(g): run the generator to its next yield or to the exception it
\* raises.  pc = "final" is the generator suspended at line 125: the pair
\* it handed out is the last one, and a further next() runs the break,
\* raises StopIteration and changes nothing.
GenNext(g) ==
  /\ gen[g].pc \in {"created", "yielded"}
  /\ LET gs == gen[g]
         pay == monthly_payment
     IN gen' = [gen EXCEPT ![g] =
          IF gs.pc = "created"
          THEN IF pay.raise /= "none" THEN [gs EXCEPT !.pc = "raised"]
               ELSE loop_body(gs, pay.value, _amount, quantize_rate(_interest))
          ELSE loop_body(gs, gs.monthly, gs.balance - gs.principle, gs.rate)]
  /\ UNCHANGED <<obj, args, _interest, _months, _amount, fpUp, ret>>

Next ==
  \/ Construct
  \/ CallMonthlyPayment
  \/ CallAnnualPayment
  \/ \E a \in HorizonArgs, f \in Inflations : CallTotalPayout(a[1], a[2], f)
  \/ \E a \in HorizonArgs, f \in Inflations : CallTotalCost(a[1], a[2], f)
  \/ \E a \in HorizonArgs, f \in Inflations : CallBalance(a[1], a[2], f)
  \/ \E g \in Gens : GenNext(g)

Spec == Init /\ [][Next]_vars

\* the queries alone, and the generators alone
NextQuery ==
  \/ Construct
  \/ CallMonthlyPayment
  \/ CallAnnualPayment
  \/ \E a \in HorizonArgs, f \in Inflations : CallTotalPayout(a[1], a[2], f)
  \/ \E a \in HorizonArgs, f \in Inflations : CallTotalCost(a[1], a[2], f)
  \/ \E a \in HorizonArgs, f \in Inflations : CallBalance(a[1], a[2], f)

NextSchedule ==
  \/ Construct
  \/ \E g \in Gens : GenNext(g)

QuerySpec == Init /\ [][NextQuery]_vars
ScheduleSpec == Init /\ [][NextSchedule]_vars
\* next() is called until the generator is exhausted
ScheduleLive == ScheduleSpec /\ \A g \in Gens : WF_vars(GenNext(g))

\* ---------------------------------------------------------------- claims
\* a Mortgage with rate > 0 (every modelled rate) and term_months >= 1
Valid == obj = "Mortgage" /\ _months >= 1
Finished(g) == gen[g].pc = "final"

\* C1: once the schedule of a valid Mortgage has handed out its last pair,
\* the principal portions handed out sum to the principal exactly and the
\* running balance after that pair is 0.
C1_SumIsPrincipal ==
  \A g \in Gens :
    (Valid /\ Finished(g)) =>
      /\ gen[g].paid = _amount
      /\ gen[g].balance - gen[g].out[1] = 0
C1_Witness ==
  \E g \in Gens :
    Valid /\ gen[g].pc = "final" /\ gen[g].count >= 2 /\ _amount > 0

\* C2: the schedule of a valid Mortgage with principal > 0, once started,
\* eventually stops (it hands out its final pair, or raises).
C2_Terminates ==
  \A g \in Gens :
    (Valid /\ _amount > 0 /\ gen[g].pc = "created")
      ~> (gen[g].pc \in {"final", "raised"})

\* C3: the schedule of a valid Mortgage with principal > 0 hands out at
\* most term_months pairs.
C3_AtMostTermPairs ==
  \A g \in Gens :
    (Valid /\ _amount > 0) => gen[g].count <= _months

\* C4: constructing with both months and years, or with neither, raises
\* InputError and leaves no Mortgage; with exactly one of them it succeeds
\* and term_months is int(months), or int(years*12).
C4_Construct ==
  obj /= "none" =>
    /\ obj = "InputError" <=> (args.months = None <=> args.years = None)
    /\ obj = "InputError" => (_months = 0 /\ _amount = 0
                               /\ \A g \in Gens : gen[g].pc = "none")
    /\ (obj = "Mortgage" /\ args.months /= None) =>
         (2 * _months <= args.months /\ args.months < 2 * _months + 2)
    /\ (obj = "Mortgage" /\ args.years /= None) =>
         (16 * _months <= 12 * args.years
            /\ 12 * args.years < 16 * _months + 16)
C4_Witness ==
  obj = "InputError" /\ args.months /= None /\ args.years /= None

\* C5: for a valid Mortgage with principal >= 0, monthly_payment() times
\* term_months is at least the principal.
C5_PaymentCoversPrincipal ==
  (Valid /\ _amount >= 0 /\ ret.op = "monthly_payment"
         /\ ret.outcome = "value") =>
    ret.num * _months >= _amount

SameSchedules ==
  \A g, h \in Gens :
    (gen[g].count = gen[h].count /\ gen[g].count < CountCap
       /\ gen[g].pc \notin {"none", "created"}
       /\ gen[h].pc \notin {"none", "created"}) =>
      /\ gen[g].out = gen[h].out
      /\ gen[g].pc = "yielded" <=> gen[h].pc = "yielded"
      /\ gen[g].pc = "raised" <=> gen[h].pc = "raised"
C7_Immutable ==
  [][/\ obj = "Mortgage" => (obj' = "Mortgage" /\ UNCHANGED loan)
     /\ SameSchedules']_vars
C7_Witness ==
  /\ gen[1].pc = "final" /\ gen[2].pc = "yielded" /\ gen[1].count >= 2
  /\ ret.op = "balance" /\ ret.outcome = "InputError"

\* C8: every currency value the engine returns is a whole number of cents.
C8_WholeCents ==
  ret.outcome = "value" => ret.num % ret.den = 0

\* C9: the final pair of the schedule of a Mortgage with principal > 0 has
\* principal portion + interest portion <= monthly_payment(), hence
\* principal portion <= monthly_payment(), and its principal portion is the
\* remaining balance.
C9_FinalPair ==
  \A g \in Gens :
    (obj = "Mortgage" /\ _amount > 0 /\ Finished(g)) =>
      /\ gen[g].out[1] + gen[g].out[2] <= gen[g].monthly
      /\ gen[g].out[1] <= gen[g].monthly
      /\ gen[g].out[1] = gen[g].balance
      /\ gen[g].monthly = monthly_payment.value
C9_Witness ==
  \E g \in Gens :
    /\ obj = "Mortgage" /\ _amount > 0 /\ gen[g].pc = "final"
    /\ gen[g].count >= 2 /\ gen[g].out[2] > 0
    /\ gen[g].out[1] + gen[g].out[2] < gen[g].monthly

\* C10: every non-final pair of the schedule of a valid Mortgage with
\* principal > 0 has principal portion = monthly_payment() - interest
\* portion > 0, and the balance is > 0 until the final period.
C10_StrictlyDecreasing ==
  \A g \in Gens :
    (Valid /\ _amount > 0 /\ gen[g].pc = "yielded") =>
      /\ gen[g].out[1] = gen[g].monthly - gen[g].out[2]
      /\ gen[g].out[1] > 0
      /\ gen[g].balance > 0
====
